---- MODULE Spec2Model ----
(***************************************************************************)
(* Model of src/main.py: the Bing-grounding agent provisioning script.     *)
(*                                                                         *)
(* The state is the process environment (as left by load_dotenv), the      *)
(* local variables of main, the position of main, the two output streams,  *)
(* the calls issued to the remote agent service, and the part of the       *)
(* remote service's state this script changes (agents, thread, message).   *)
(* Every call into the SDK either returns or raises; a raise propagates    *)
(* out of main and ends the process with exit status 1.                    *)
(***************************************************************************)
EXTENDS Integers, Sequences, FiniteSets

VARIABLES
    env,          \* os.environ after load_dotenv(): name -> optional string
    locals,       \* main's locals read by get_env
    pc,           \* the statement of main that runs next
    credential,   \* the credential class create_project_client chose
    client,       \* life cycle of the AIProjectClient object
    stdout,       \* lines printed to standard output
    stderr,       \* lines printed to the error stream
    calls,        \* remote calls issued, in order
    returned,     \* remote calls that returned without raising, in order
    agents,       \* agent IDs that exist on the remote service
    agentId,      \* agent.id of the agent this run created
    deletedId,    \* the argument of delete_agent
    threadExists, \* the thread this run created exists on the remote service
    posted,       \* content of the user message posted to the thread
    run,          \* run.status returned by create_and_process
    raised,       \* the statement whose call raised
    exitStatus    \* the process's exit status

vars == <<env, locals, pc, credential, client, stdout, stderr, calls, returned,
          agents, agentId, deletedId, threadExists, posted, run, raised,
          exitStatus>>

(***************************************************************************)
(* Optional strings: os.environ.get(name) is None or a str.                *)
(***************************************************************************)
None == <<>>

Some(s) == <<s>>

\* A local of main that has not been assigned yet.
Unbound == <<"unbound", "local">>

\* The non-empty strings a variable is given in the model.
Strs == {"v"}

EnvVal == {None, Some("")} \cup {Some(s) : s \in Strs}

\* Python truth value of an Optional[str]: None and "" are false.
Truthy(v) == v # None /\ v[1] # ""

RequiredNames == <<"PROJECT_ENDPOINT", "MODEL_DEPLOYMENT_NAME", "BING_CONNECTION_ID">>

EnvNames == {"PROJECT_ENDPOINT", "MODEL_DEPLOYMENT_NAME", "BING_CONNECTION_ID",
             "AZURE_AI_FOUNDRY_API_KEY", "AZURE_CLIENT_ID", "AZURE_TENANT_ID",
             "AZURE_CLIENT_SECRET", "QUESTION", "KEEP_AGENT"}

LocalNames == {"project_endpoint", "model_name", "bing_connection_id", "api_key"}

\* Bounds on what the remote service returns from the two list calls.
MaxMessages == 2

MaxSteps == 1

\* agent.id values the remote service may hand out.
AgentIds == {"asst_1", "asst_2"}

\* Terminal run statuses create_and_process may return.
RunStatuses == {"completed", "failed", "expired"}

DefaultQuestion == "How does wikipedia explain Euler's Identity?"


(***************************************************************************)
(* The statements of main, in program order.                               *)
(***************************************************************************)
Statements == <<"get_endpoint", "get_model", "get_bing", "get_api_key",
                "create_client", "bing_tool", "enter",
                "create_agent", "create_thread", "create_message", "run",
                "list_messages", "list_steps", "cleanup", "done">>

\* The statements inside the block "with project_client:".
WithBody == {"create_agent", "create_thread", "create_message", "run",
             "list_messages", "list_steps", "cleanup"}

\* The remote calls main contains, in program order.
RemoteOrder == <<"create_agent", "create_thread", "create_message", "run",
                 "list_messages", "list_steps", "delete_agent">>

IndexOf(seq, x) == CHOOSE i \in 1..Len(seq) : seq[i] = x

\* Mutant of After: the messages are listed before the run is started.
After_RunAfterList(s) ==
    CASE s = "create_message" -> "list_messages"
      [] s = "list_messages"  -> "run"
      [] s = "run"            -> "list_steps"
      [] OTHER                -> Statements[IndexOf(Statements, s) + 1]

\* Straight-line control flow: the statement that follows s.
After(s) == Statements[IndexOf(Statements, s) + 1]

(***************************************************************************)
(* get_env(name, required): the value read, and whether it calls           *)
(* sys.exit(1) after printing the diagnostic to stderr.                    *)
(***************************************************************************)
\* Mutant of get_env: "if value is None and required", so an empty value passes.
get_env_NoneOnly(name, required) ==
    [exits |-> env[name] = None /\ required,
     diag  |-> <<"Missing required environment variable: ", name>>,
     value |-> env[name]]

\* Mutant of get_env: the sys.exit(1) is missing.
get_env_NeverExits(name, required) ==
    [exits |-> FALSE,
     diag  |-> <<"Missing required environment variable: ", name>>,
     value |-> env[name]]

\* Mutant of get_env: "if not value", the required flag is ignored.
get_env_AlwaysRequired(name, required) ==
    [exits |-> ~Truthy(env[name]),
     diag  |-> <<"Missing required environment variable: ", name>>,
     value |-> env[name]]

get_env(name, required) ==
    LET value == env[name]
    IN  [exits |-> ~Truthy(value) /\ required,
         diag  |-> <<"Missing required environment variable: ", name>>,
         value |-> value]

(***************************************************************************)
(* create_project_client: the branch taken and the lines printed.          *)
(***************************************************************************)
\* Mutant of UseServicePrincipal: the tenant ID is not tested.
UseServicePrincipal_NoTenant(client_id, tenant_id, client_secret) ==
    Truthy(client_id) /\ Truthy(client_secret)

UseServicePrincipal(client_id, tenant_id, client_secret) ==
    Truthy(client_id) /\ Truthy(tenant_id) /\ Truthy(client_secret)

CredentialClass(client_id, tenant_id, client_secret) ==
    IF UseServicePrincipal(client_id, tenant_id, client_secret)
    THEN "ClientSecretCredential"
    ELSE "DefaultAzureCredential"

ServicePrincipalLine == <<"Using Service Principal authentication">>

ApiKeyWarning ==
    << <<"Note: Azure AI Foundry AIProjectClient doesn't support direct API key authentication.">>,
       <<"API keys are used for individual Azure AI service connections, not for the project client.">>,
       <<"Using DefaultAzureCredential instead (Azure CLI login, Managed Identity, etc.)">>,
       <<"Your API key may be useful for other Azure AI services in your project.">> >>

DefaultCredentialLine ==
    <<"Using DefaultAzureCredential authentication (Azure CLI/Managed Identity)">>

\* Mutant of CredentialLines: the API key is tested before the triple.
CredentialLines_KeyFirst(client_id, tenant_id, client_secret, api_key) ==
    IF Truthy(api_key)
    THEN ApiKeyWarning
    ELSE IF UseServicePrincipal(client_id, tenant_id, client_secret)
         THEN <<ServicePrincipalLine>>
         ELSE <<DefaultCredentialLine>>

CredentialLines(client_id, tenant_id, client_secret, api_key) ==
    IF UseServicePrincipal(client_id, tenant_id, client_secret)
    THEN <<ServicePrincipalLine>>
    ELSE IF Truthy(api_key)
         THEN ApiKeyWarning
         ELSE <<DefaultCredentialLine>>

(***************************************************************************)
(* Pieces of main.                                                         *)
(***************************************************************************)
\* os.environ.get("QUESTION", default): the default only when absent.
Question ==
    IF env["QUESTION"] = None THEN DefaultQuestion ELSE env["QUESTION"][1]

\* Mutant of RunReport: the "if run.status == 'failed'" report is missing.
RunReport_StatusOnly(status) ==
    << <<"Run finished with status: ", status>> >>

\* The lines printed after create_and_process returned a run with this status.
RunReport(status) ==
    << <<"Run finished with status: ", status>> >>
    \o (IF status = "failed" THEN << <<"Run failed: ", "last_error">> >> ELSE <<>>)

\* Mutant of ShouldDeleteAgent: the agent is deleted unconditionally.
ShouldDeleteAgent_Always == TRUE

\* "if not os.environ.get('KEEP_AGENT')".
ShouldDeleteAgent == ~Truthy(env["KEEP_AGENT"])

\* Mutant of ClientAfterRaise: the calls are not inside a with block.
ClientAfterRaise_NoExit(s) == client

\* What an exception leaving statement s does to the client: the with
\* statement's __exit__ runs only when the block had been entered.
ClientAfterRaise(s) == IF s \in WithBody THEN "closed" ELSE client

\* n copies of a line.
Repeat(line, n) == [i \in 1..n |-> line]

Init ==
    /\ env \in [EnvNames -> EnvVal]
    /\ locals = [n \in LocalNames |-> Unbound]
    /\ pc = "get_endpoint"
    /\ credential = "none"
    /\ client = "none"
    /\ stdout = <<>>
    /\ stderr = <<>>
    /\ calls = <<>>
    /\ returned = <<>>
    /\ agents = {}
    /\ agentId = None
    /\ deletedId = None
    /\ threadExists = FALSE
    /\ posted = None
    /\ run = "none"
    /\ raised = "none"
    /\ exitStatus = -1

remoteVars == <<calls, returned, agents, agentId, deletedId, threadExists, posted, run>>

\* An exception raised by statement s propagates out of main: the
\* interpreter prints the traceback and the process exits with status 1.
Raise(s) ==
    /\ raised' = s
    /\ exitStatus' = 1
    /\ pc' = "done"
    /\ client' = ClientAfterRaise(s)
    /\ stderr' = Append(stderr, <<"Traceback", s>>)

\* One "x = get_env(NAME, required)" statement of main.
GetEnvStatement(s, name, local, required) ==
    /\ pc = s
    /\ LET r == get_env(name, required)
       IN  IF r.exits
           THEN /\ stderr' = Append(stderr, r.diag)
                /\ exitStatus' = 1
                /\ pc' = "done"
                /\ UNCHANGED locals
           ELSE /\ locals' = [locals EXCEPT ![local] = r.value]
                /\ pc' = After(s)
                /\ UNCHANGED <<stderr, exitStatus>>
    /\ UNCHANGED <<env, credential, client, stdout, raised>>
    /\ UNCHANGED remoteVars

GetEndpoint == GetEnvStatement("get_endpoint", "PROJECT_ENDPOINT", "project_endpoint", TRUE)

GetModel == GetEnvStatement("get_model", "MODEL_DEPLOYMENT_NAME", "model_name", TRUE)

GetBing == GetEnvStatement("get_bing", "BING_CONNECTION_ID", "bing_connection_id", TRUE)

GetApiKey == GetEnvStatement("get_api_key", "AZURE_AI_FOUNDRY_API_KEY", "api_key", FALSE)

\* project_client = create_project_client(project_endpoint, api_key)
CreateProjectClient ==
    /\ pc = "create_client"
    /\ LET client_id     == env["AZURE_CLIENT_ID"]
           tenant_id     == env["AZURE_TENANT_ID"]
           client_secret == env["AZURE_CLIENT_SECRET"]
       IN  /\ credential' = CredentialClass(client_id, tenant_id, client_secret)
           /\ stdout' = stdout \o CredentialLines(client_id, tenant_id,
                                                  client_secret, locals["api_key"])
    /\ \/ /\ client' = "created"
          /\ pc' = After("create_client")
          /\ UNCHANGED <<raised, exitStatus, stderr>>
       \/ Raise("create_client")
    /\ UNCHANGED <<env, locals>>
    /\ UNCHANGED remoteVars

\* bing_tool = BingGroundingTool(connection_id=bing_connection_id)
CreateBingTool ==
    /\ pc = "bing_tool"
    /\ \/ /\ pc' = After("bing_tool")
          /\ UNCHANGED <<client, raised, exitStatus, stderr>>
       \/ Raise("bing_tool")
    /\ UNCHANGED <<env, locals, credential, stdout>>
    /\ UNCHANGED remoteVars

\* with project_client:   (the call of __enter__)
EnterClient ==
    /\ pc = "enter"
    /\ \/ /\ client' = "entered"
          /\ pc' = After("enter")
          /\ UNCHANGED <<raised, exitStatus, stderr>>
       \/ Raise("enter")
    /\ UNCHANGED <<env, locals, credential, stdout>>
    /\ UNCHANGED remoteVars

\* A remote call of statement s that raises: the call was issued, nothing
\* else of the remote state this script tracks changes.
RemoteRaise(s, op) ==
    /\ calls' = Append(calls, op)
    /\ Raise(s)
    /\ UNCHANGED <<returned, agents, agentId, deletedId, threadExists, posted, run>>

\* agent = project_client.agents.create_agent(...); print the ID
CreateAgent ==
    /\ pc = "create_agent"
    /\ \/ /\ \E id \in AgentIds \ agents :
                /\ agents' = agents \cup {id}
                /\ agentId' = Some(id)
                /\ stdout' = Append(stdout, <<"Created agent, ID: ", id>>)
          /\ calls' = Append(calls, "create_agent")
          /\ returned' = Append(returned, "create_agent")
          /\ pc' = After("create_agent")
          /\ UNCHANGED <<client, raised, exitStatus, stderr,
                         deletedId, threadExists, posted, run>>
       \/ /\ RemoteRaise("create_agent", "create_agent")
          /\ UNCHANGED stdout
    /\ UNCHANGED <<env, locals, credential>>

\* thread = project_client.agents.threads.create(); print the ID
CreateThread ==
    /\ pc = "create_thread"
    /\ \/ /\ threadExists' = TRUE
          /\ stdout' = Append(stdout, <<"Created thread, ID: ", "thread_1">>)
          /\ calls' = Append(calls, "create_thread")
          /\ returned' = Append(returned, "create_thread")
          /\ pc' = After("create_thread")
          /\ UNCHANGED <<client, raised, exitStatus, stderr,
                         agents, agentId, deletedId, posted, run>>
       \/ /\ RemoteRaise("create_thread", "create_thread")
          /\ UNCHANGED stdout
    /\ UNCHANGED <<env, locals, credential>>

\* message = project_client.agents.messages.create(role="user", content=question)
CreateMessage ==
    /\ pc = "create_message"
    /\ \/ /\ posted' = Some(Question)
          /\ stdout' = Append(stdout, <<"Created message, ID: ", "msg_1">>)
          /\ calls' = Append(calls, "create_message")
          /\ returned' = Append(returned, "create_message")
          /\ pc' = After("create_message")
          /\ UNCHANGED <<client, raised, exitStatus, stderr,
                         agents, agentId, deletedId, threadExists, run>>
       \/ /\ RemoteRaise("create_message", "create_message")
          /\ UNCHANGED stdout
    /\ UNCHANGED <<env, locals, credential>>

\* run = project_client.agents.runs.create_and_process(...); report its status
CreateAndProcessRun ==
    /\ pc = "run"
    /\ \/ /\ \E status \in RunStatuses :
                /\ run' = status
                /\ stdout' = stdout \o RunReport(status)
          /\ calls' = Append(calls, "run")
          /\ returned' = Append(returned, "run")
          /\ pc' = After("run")
          /\ UNCHANGED <<client, raised, exitStatus, stderr,
                         agents, agentId, deletedId, threadExists, posted>>
       \/ /\ RemoteRaise("run", "run")
          /\ UNCHANGED stdout
    /\ UNCHANGED <<env, locals, credential>>

\* print("Messages:"); list the thread's messages and print each
ListMessages ==
    /\ pc = "list_messages"
    /\ \/ /\ \E n \in 1..MaxMessages :
                stdout' = stdout \o << <<"Messages:">> >>
                                 \o Repeat(<<" - role: content">>, n)
          /\ calls' = Append(calls, "list_messages")
          /\ returned' = Append(returned, "list_messages")
          /\ pc' = After("list_messages")
          /\ UNCHANGED <<client, raised, exitStatus, stderr,
                         agents, agentId, deletedId, threadExists, posted, run>>
       \/ /\ RemoteRaise("list_messages", "list_messages")
          /\ stdout' = Append(stdout, <<"Messages:">>)
    /\ UNCHANGED <<env, locals, credential>>

\* print("\nRun steps:"); list the run's steps and print each
ListRunSteps ==
    /\ pc = "list_steps"
    /\ \/ /\ \E n \in 0..MaxSteps :
                stdout' = stdout \o << <<"Run steps:">> >>
                                 \o Repeat(<<" Step id status: status">>, n)
          /\ calls' = Append(calls, "list_steps")
          /\ returned' = Append(returned, "list_steps")
          /\ pc' = After("list_steps")
          /\ UNCHANGED <<client, raised, exitStatus, stderr,
                         agents, agentId, deletedId, threadExists, posted, run>>
       \/ /\ RemoteRaise("list_steps", "list_steps")
          /\ stdout' = Append(stdout, <<"Run steps:">>)
    /\ UNCHANGED <<env, locals, credential>>

\* The end of the with block: the cleanup, then __exit__ closes the client
\* and main returns, so the process exits with status 0.
Cleanup ==
    /\ pc = "cleanup"
    /\ IF ShouldDeleteAgent
       THEN \/ /\ calls' = Append(calls, "delete_agent")
               /\ returned' = Append(returned, "delete_agent")
               /\ deletedId' = agentId
               /\ agents' = agents \ {agentId[1]}
               /\ stdout' = Append(stdout, <<"Deleted agent">>)
               /\ client' = "closed"
               /\ exitStatus' = 0
               /\ pc' = After("cleanup")
               /\ UNCHANGED <<raised, stderr>>
            \/ /\ calls' = Append(calls, "delete_agent")
               /\ deletedId' = agentId
               /\ Raise("cleanup")
               /\ UNCHANGED <<returned, agents, stdout>>
       ELSE /\ client' = "closed"
            /\ exitStatus' = 0
            /\ pc' = After("cleanup")
            /\ UNCHANGED <<calls, returned, deletedId, agents, stdout, raised, stderr>>
    /\ UNCHANGED <<env, locals, credential, agentId, threadExists, posted, run>>

Next ==
    \/ GetEndpoint
    \/ GetModel
    \/ GetBing
    \/ GetApiKey
    \/ CreateProjectClient
    \/ CreateBingTool
    \/ EnterClient
    \/ CreateAgent
    \/ CreateThread
    \/ CreateMessage
    \/ CreateAndProcessRun
    \/ ListMessages
    \/ ListRunSteps
    \/ Cleanup

Spec == Init /\ [][Next]_vars

(***************************************************************************)
(* Vocabulary of the properties.                                           *)
(***************************************************************************)
Contains(seq, x) == \E i \in 1..Len(seq) : seq[i] = x

IsPrefix(s, t) == Len(s) <= Len(t) /\ \A i \in 1..Len(s) : s[i] = t[i]

\* A setting that is absent or empty.
Blank(name) == env[name] \in {None, Some("")}

MissingRequired == \E i \in 1..Len(RequiredNames) : Blank(RequiredNames[i])

TripleComplete ==
    \A n \in {"AZURE_CLIENT_ID", "AZURE_TENANT_ID", "AZURE_CLIENT_SECRET"} : ~Blank(n)

PcIndex == IndexOf(Statements, pc)

WarningEmitted == \E i \in 1..Len(ApiKeyWarning) : Contains(stdout, ApiKeyWarning[i])

DiagnosticFor(name) == <<"Missing required environment variable: ", name>>

\* The first six remote calls: everything before delete_agent.
BeforeDelete == SubSeq(RemoteOrder, 1, Len(RemoteOrder) - 1)

\* The transcript's section headings, in the order they were printed.
IsHeading(h) == h \in {"Created agent, ID: ", "Created thread, ID: ",
                       "Created message, ID: ", "Run finished with status: ",
                       "Messages:", "Run steps:", "Deleted agent"}

Headings == SelectSeq([i \in 1..Len(stdout) |-> stdout[i][1]], IsHeading)

FullTranscript ==
    /\ Headings = <<"Created agent, ID: ", "Created thread, ID: ",
                    "Created message, ID: ", "Run finished with status: ",
                    "Messages:", "Run steps:">>
                  \o (IF Contains(returned, "delete_agent")
                      THEN <<"Deleted agent">> ELSE <<>>)
    /\ Contains(stdout, <<"Created agent, ID: ", agentId[1]>>)
    /\ Contains(stdout, <<"Run finished with status: ", run>>)

(***************************************************************************)
(* C1. create_project_client chooses ClientSecretCredential if and only if *)
(* AZURE_CLIENT_ID, AZURE_TENANT_ID and AZURE_CLIENT_SECRET are all three  *)
(* non-empty, and DefaultAzureCredential otherwise, whatever the API key   *)
(* is: a partial triple is treated like an absent one.                     *)
(***************************************************************************)
C1_SelectorIff ==
    /\ PcIndex > IndexOf(Statements, "create_client") /\ ~MissingRequired
           => credential # "none"
    /\ credential # "none" =>
           /\ TripleComplete => credential = "ClientSecretCredential"
           /\ ~TripleComplete => credential = "DefaultAzureCredential"

C1_Witness ==
    /\ credential = "DefaultAzureCredential"
    /\ ~Blank("AZURE_CLIENT_ID")
    /\ ~Blank("AZURE_TENANT_ID")
    /\ Blank("AZURE_CLIENT_SECRET")
    /\ ~Blank("AZURE_AI_FOUNDRY_API_KEY")

(***************************************************************************)
(* C2. The API-key-ignored warning is printed if and only if the ambient   *)
(* branch is chosen and the API key is non-empty; the service-principal    *)
(* branch never prints it, and no API key means no warning.                *)
(***************************************************************************)
C2_WarningIff ==
    credential # "none" =>
        /\ WarningEmitted <=>
               (credential = "DefaultAzureCredential" /\ ~Blank("AZURE_AI_FOUNDRY_API_KEY"))
        /\ WarningEmitted => \A i \in 1..Len(ApiKeyWarning) : stdout[i] = ApiKeyWarning[i]
        /\ TripleComplete => stdout[1] = ServicePrincipalLine
        /\ (~TripleComplete /\ Blank("AZURE_AI_FOUNDRY_API_KEY"))
               => stdout[1] = DefaultCredentialLine

C2_Witness ==
    /\ WarningEmitted
    /\ ~Blank("AZURE_CLIENT_ID")
    /\ ~Blank("AZURE_TENANT_ID")
    /\ env["AZURE_CLIENT_SECRET"] = Some("")

(***************************************************************************)
(* C3. When one of PROJECT_ENDPOINT, MODEL_DEPLOYMENT_NAME and             *)
(* BING_CONNECTION_ID is absent or empty, the process exits non-zero       *)
(* before the credential selector runs and before any remote call.         *)
(***************************************************************************)
C3_MissingRequiredExitsEarly ==
    MissingRequired =>
        /\ pc \in {"get_endpoint", "get_model", "get_bing", "done"}
        /\ calls = <<>>
        /\ credential = "none"
        /\ client = "none"
        /\ stdout = <<>>
        /\ agents = {}
        /\ pc = "done" => exitStatus > 0
        /\ pc # "done" => ENABLED Next

C3_Witness ==
    /\ pc = "done"
    /\ exitStatus = 1
    /\ ~Blank("PROJECT_ENDPOINT")
    /\ Blank("MODEL_DEPLOYMENT_NAME")
    /\ TripleComplete
    /\ ~Blank("AZURE_AI_FOUNDRY_API_KEY")

(***************************************************************************)
(* C4. When create_and_process returns a run whose status is "failed", the *)
(* transcript has the last-error line right after the status line, and the *)
(* driver still lists the messages, lists the run steps and, when          *)
(* KEEP_AGENT is not set, calls delete_agent, in this order: only a call   *)
(* that raises ends the sequence early, the status never does.             *)
(***************************************************************************)
C4_FailedRunContinues ==
    run = "failed" =>
        /\ \E i \in 1..(Len(stdout) - 1) :
               /\ stdout[i] = <<"Run finished with status: ", "failed">>
               /\ stdout[i + 1] = <<"Run failed: ", "last_error">>
        /\ pc \in {"list_messages", "list_steps", "cleanup", "done"}
        /\ pc # "done" => exitStatus = -1 /\ ENABLED Next
        /\ (pc = "done" /\ raised = "none") =>
               /\ exitStatus = 0
               /\ IsPrefix(BeforeDelete, calls)
               /\ IsPrefix(calls, RemoteOrder)
               /\ env["KEEP_AGENT"] = None => calls = RemoteOrder
        /\ (pc = "done" /\ raised # "none") =>
               raised \in {"list_messages", "list_steps", "cleanup"}

C4_Witness ==
    /\ run = "failed"
    /\ pc = "done"
    /\ exitStatus = 0
    /\ env["KEEP_AGENT"] = None
    /\ calls = RemoteOrder

(***************************************************************************)
(* C5. Whenever KEEP_AGENT is set in the environment, with any value,      *)
(* delete_agent is never called and "Deleted agent" is never printed; and  *)
(* whenever it is not set and the sequence reaches its last step,          *)
(* delete_agent is called on the created agent's ID.                       *)
(***************************************************************************)
C5_RetainWheneverSet ==
    /\ env["KEEP_AGENT"] # None =>
           /\ ~Contains(calls, "delete_agent")
           /\ ~Contains(stdout, <<"Deleted agent">>)
    /\ (env["KEEP_AGENT"] = None /\ pc = "done" /\ IsPrefix(BeforeDelete, returned)) =>
           /\ Contains(calls, "delete_agent")
           /\ deletedId = agentId
           /\ agentId # None

(***************************************************************************)
(* C6 as stated. Once the client object has been constructed, it is        *)
(* released on every exit path of main, including a fault in the           *)
(* construction of the grounding tool or in entering the scoped block.     *)
(***************************************************************************)
C6_ReleasedOnEveryExit ==
    (pc = "done" /\ client # "none") => client = "closed"

(***************************************************************************)
(* C6 as amended. Once the scoped block has been entered, the client is    *)
(* released on every exit path: on normal completion and when any          *)
(* statement of the block raises. A fault between the construction of the  *)
(* client and the entry into the block ends the process with the client    *)
(* constructed and not released.                                           *)
(***************************************************************************)
C6_ReleasedOnceEntered ==
    /\ pc \in WithBody => client = "entered"
    /\ (pc = "done" /\ (raised \in WithBody \/ exitStatus = 0)) => client = "closed"
    /\ (pc = "done" /\ raised \in {"bing_tool", "enter"}) => client = "created"
    /\ client = "closed" => pc = "done"

C6_Witness ==
    /\ pc = "done"
    /\ raised = "run"
    /\ client = "closed"

(***************************************************************************)
(* C7 as stated. The process exits non-zero if a required variable is      *)
(* missing; in every other case it runs to completion and exits zero,      *)
(* having printed the full transcript.                                     *)
(***************************************************************************)
C7_ExitZeroUnlessMissing ==
    pc = "done" =>
        IF MissingRequired
        THEN exitStatus # 0
        ELSE exitStatus = 0 /\ FullTranscript

(***************************************************************************)
(* C7 as amended. The process exits non-zero if and only if a required     *)
(* variable is missing or a call made by main raises; otherwise it runs to *)
(* completion and exits zero, having printed the full transcript (with the *)
(* deletion confirmation exactly when the agent was deleted). It never     *)
(* stops anywhere but at its exit.                                         *)
(***************************************************************************)
C7_ExitStatus ==
    /\ pc = "done" =>
           /\ exitStatus \in {0, 1}
           /\ exitStatus # 0 <=> (MissingRequired \/ raised # "none")
           /\ MissingRequired =>
                  /\ raised = "none"
                  /\ \E i \in 1..Len(RequiredNames) :
                         stderr = <<DiagnosticFor(RequiredNames[i])>>
           /\ exitStatus = 0 => FullTranscript /\ stderr = <<>>
    /\ pc # "done" => exitStatus = -1 /\ ENABLED Next

C7_Witness ==
    /\ pc = "done"
    /\ exitStatus = 0
    /\ Contains(stdout, <<"Deleted agent">>)
    /\ run = "completed"

(***************************************************************************)
(* C8. get_env(name, required=True) exits with status 1 and a diagnostic   *)
(* on stderr exactly when the variable is absent or empty, and otherwise   *)
(* returns its value; get_env(name, required=False) never exits and        *)
(* returns the value, which may be absent or empty.                        *)
(***************************************************************************)
C8_GetEnvContract ==
    /\ \A n \in EnvNames :
           /\ get_env(n, TRUE).exits <=> Blank(n)
           /\ ~get_env(n, FALSE).exits
           /\ get_env(n, TRUE).value = env[n]
           /\ get_env(n, FALSE).value = env[n]
           /\ get_env(n, TRUE).diag = DiagnosticFor(n)
    /\ \A i \in 1..Len(RequiredNames) :
           LET name  == RequiredNames[i]
               local == <<"project_endpoint", "model_name", "bing_connection_id">>[i]
               reached == \A j \in 1..(i - 1) : ~Blank(RequiredNames[j])
           IN  (reached /\ PcIndex > i) =>
                   IF Blank(name)
                   THEN /\ pc = "done"
                        /\ exitStatus = 1
                        /\ stderr = <<DiagnosticFor(name)>>
                        /\ locals[local] = Unbound
                   ELSE /\ locals[local] = env[name]
                        /\ ~Contains(stderr, DiagnosticFor(name))
    /\ (~MissingRequired /\ PcIndex > IndexOf(Statements, "get_api_key")) =>
           /\ locals["api_key"] = env["AZURE_AI_FOUNDRY_API_KEY"]
           /\ ~Contains(stderr, DiagnosticFor("AZURE_AI_FOUNDRY_API_KEY"))
           /\ exitStatus = 1 => raised # "none"

C8_Witness ==
    /\ pc = "create_client"
    /\ locals["api_key"] = Some("")
    /\ locals["bing_connection_id"] = Some("v")

(***************************************************************************)
(* C9. The remote calls are issued in the fixed order create agent, create *)
(* thread, create message, run, list messages, list run steps, delete      *)
(* agent; each at most once; a call is issued only after every earlier     *)
(* call returned without raising; and the thread is never deleted.         *)
(***************************************************************************)
C9_FixedCallOrder ==
    /\ IsPrefix(calls, RemoteOrder)
    /\ \A i, j \in 1..Len(calls) : calls[i] = calls[j] => i = j
    /\ IsPrefix(returned, calls)
    /\ Len(calls) <= Len(returned) + 1
    /\ Len(returned) < Len(calls) => pc = "done" /\ raised # "none"
    /\ threadExists <=> Contains(returned, "create_thread")

C9_Witness ==
    /\ pc = "done"
    /\ calls = RemoteOrder
    /\ returned = RemoteOrder
    /\ threadExists

====
